---------------------------- MODULE Spec2Model ----------------------------
(***************************************************************************)
(* A model of the SEP-39 codec of src/sep39.py: encode() packs a byte      *)
(* payload and its media-type metadata into ManageData rows (key and value *)
(* of at most 64 units each) and decode() unpacks them.                    *)
(*                                                                         *)
(* Representation.  A Python str is a sequence of character codes (ASCII), *)
(* a bytes object a sequence of integers 0..255, so str.encode("ascii") is *)
(* the identity on codes and bytes.decode("ascii") fails on a byte > 127.  *)
(* A params dict is the sequence of its <<key, value>> pairs in insertion  *)
(* order.  A row is a record [key, value].  Python slices clamp; indexing  *)
(* past the end raises IndexError.                                         *)
(***************************************************************************)
EXTENDS Integers, Sequences, FiniteSets, TLC

VARIABLES
    data,         \* encode's argument `data`
    media_types,  \* encode's argument `*media_types`
    rows,         \* the rows encode returned, as handed to decode
    enc,          \* how encode ended: [err]
    dec,          \* how decode ended: [err, metadata, binary, media_types, binaries]
    pc,           \* position of the caller: "start", "encoded" or "rejected", "decoded"
                  \* ("off" in the row-by-row run)
    tampered,     \* whether a row value was changed between encode and decode
    big           \* the row-by-row run of encode on a payload at the size limit

vars == <<data, media_types, rows, enc, dec, pc, tampered, big>>

-----------------------------------------------------------------------------
(* Python built-ins used by the code.                                      *)

Min(a, b) == IF a < b THEN a ELSE b
Max(a, b) == IF a > b THEN a ELSE b

\* s[a:b] for 0 <= a, 0 <= b (0-based, end exclusive, clamped)
Slice(s, a, b) == SubSeq(s, Min(a, Len(s)) + 1, Min(b, Len(s)))
\* s[a:]
From(s, a) == SubSeq(s, Min(a, Len(s)) + 1, Len(s))
\* s[:b], where a negative b is not used by the code
Take(s, b) == SubSeq(s, 1, Min(Max(b, 0), Len(s)))

\* str.isdigit() on one ASCII character
IsDigit(ch) == ch >= 48 /\ ch <= 57

RECURSIVE StrOfPos(_)
StrOfPos(n) == IF n = 0 THEN << >> ELSE Append(StrOfPos(n \div 10), 48 + (n % 10))
\* str(n) for n >= 0
Str(n) == IF n = 0 THEN <<48>> ELSE StrOfPos(n)

IsDecimal(s) == Len(s) > 0 /\ \A k \in 1..Len(s) : IsDigit(s[k])
RECURSIVE IntOfDigits(_, _)
IntOfDigits(s, acc) ==
    IF s = << >> THEN acc ELSE IntOfDigits(Tail(s), acc * 10 + (Head(s) - 48))
\* int(s, 10) of a string of decimal digits (anything else: ValueError, IsDecimal false)
PyInt(s) == IntOfDigits(s, 0)

\* s.split(sep) for a one-character separator: the pieces between the separators,
\* empty pieces included, in order
Split(s, sep) ==
    LET P      == {k \in 1..Len(s) : s[k] = sep}
        n      == Cardinality(P)
        pos(j) == IF j = 0 THEN 0
                  ELSE IF j = n + 1 THEN Len(s) + 1
                  ELSE CHOOSE k \in P : Cardinality({m \in P : m < k}) = j - 1
    IN  [j \in 1..(n + 1) |-> SubSeq(s, pos(j - 1) + 1, pos(j) - 1)]

RECURSIVE Join(_, _)
\* sep.join(parts)
Join(parts, sep) ==
    IF parts = << >> THEN << >>
    ELSE IF Len(parts) = 1 THEN parts[1]
    ELSE parts[1] \o sep \o Join(Tail(parts), sep)

\* bytes.decode("ascii") succeeds
IsAscii(bs) == \A k \in 1..Len(bs) : bs[k] <= 127

-----------------------------------------------------------------------------
(* The base91 package (import base91): basE91 of Joachim Henke, as the     *)
(* Python package implements it.                                           *)

base91_alphabet ==
    <<65, 66, 67, 68, 69, 70, 71, 72, 73, 74, 75, 76, 77,
      78, 79, 80, 81, 82, 83, 84, 85, 86, 87, 88, 89, 90,
      97, 98, 99, 100, 101, 102, 103, 104, 105, 106, 107, 108, 109,
      110, 111, 112, 113, 114, 115, 116, 117, 118, 119, 120, 121, 122,
      48, 49, 50, 51, 52, 53, 54, 55, 56, 57, 33, 35, 36,
      37, 38, 40, 41, 42, 43, 44, 46, 47, 58, 59, 60, 61,
      62, 63, 64, 91, 93, 94, 95, 96, 123, 124, 125, 126, 34>>

\* decode_table: character -> its place in the alphabet, -1 when it has none
decode_table ==
    [ch \in 0..127 |->
        IF \E k \in 1..91 : base91_alphabet[k] = ch
        THEN (CHOOSE k \in 1..91 : base91_alphabet[k] = ch) - 1
        ELSE -1]

\* one pass of the for loop of base91.encode: s.b is the bit queue, s.n its length
\* in bits, s.out the text so far (b |= byte << n is an addition, as b < 2^n)
Base91EncodeStep(s, byte) ==
    LET b1 == s.b + byte * (2 ^ s.n)
        n1 == s.n + 8
    IN  IF n1 > 13
        THEN LET v13 == b1 % 8192
                 v   == IF v13 > 88 THEN v13 ELSE b1 % 16384
                 w   == IF v13 > 88 THEN 13 ELSE 14
             IN  [b |-> b1 \div (2 ^ w), n |-> n1 - w,
                  out |-> s.out \o <<base91_alphabet[(v % 91) + 1],
                                     base91_alphabet[(v \div 91) + 1]>>]
        ELSE [b |-> b1, n |-> n1, out |-> s.out]

RECURSIVE Base91EncodeLoop(_, _, _, _)
\* the for loop of base91.encode over bindata[lo..hi] (1-based), in order.  The
\* range is halved, and the first half taken (left = left) before the second is
\* entered, so that the evaluation nests log(hi - lo) deep, not once per byte.
Base91EncodeLoop(bindata, lo, hi, s) ==
    IF lo > hi THEN s
    ELSE IF lo = hi THEN Base91EncodeStep(s, bindata[lo])
    ELSE LET mid  == (lo + hi) \div 2
             left == Base91EncodeLoop(bindata, lo, mid, s)
         IN  IF left = left THEN Base91EncodeLoop(bindata, mid + 1, hi, left) ELSE left

\* base91.encode(bindata)
Base91Encode(bindata) ==
    LET s == Base91EncodeLoop(bindata, 1, Len(bindata), [b |-> 0, n |-> 0, out |-> << >>])
    IN  IF s.n > 0
        THEN IF s.n > 7 \/ s.b > 90
             THEN s.out \o <<base91_alphabet[(s.b % 91) + 1],
                             base91_alphabet[(s.b \div 91) + 1]>>
             ELSE Append(s.out, base91_alphabet[(s.b % 91) + 1])
        ELSE s.out

RECURSIVE Base91Flush(_)
\* the inner `while True` of base91.decode: emit a byte, until at most 7 bits remain
Base91Flush(s) ==
    LET s1 == [v |-> -1, b |-> s.b \div 256, n |-> s.n - 8, out |-> Append(s.out, s.b % 256)]
    IN  IF s1.n > 7 THEN Base91Flush(s1) ELSE s1

\* one pass of the for loop of base91.decode: s.v is the first character of a pair
\* (-1: none pending), s.b the bit queue, s.n its length in bits
Base91DecodeStep(s, strletter) ==
    LET c == IF strletter \in 0..127 THEN decode_table[strletter] ELSE -1
    IN  IF c < 0 THEN s
        ELSE IF s.v < 0 THEN [s EXCEPT !.v = c]
        ELSE LET v1 == s.v + c * 91
                 b1 == s.b + v1 * (2 ^ s.n)
                 n1 == s.n + (IF v1 % 8192 > 88 THEN 13 ELSE 14)
             IN  Base91Flush([v |-> -1, b |-> b1, n |-> n1, out |-> s.out])

RECURSIVE Base91DecodeLoop(_, _, _, _)
\* the for loop of base91.decode over str[lo..hi] (1-based), in order
Base91DecodeLoop(str, lo, hi, s) ==
    IF lo > hi THEN s
    ELSE IF lo = hi THEN Base91DecodeStep(s, str[lo])
    ELSE LET mid  == (lo + hi) \div 2
             left == Base91DecodeLoop(str, lo, mid, s)
         IN  IF left = left THEN Base91DecodeLoop(str, mid + 1, hi, left) ELSE left

\* base91.decode(encoded_str)
Base91Decode(str) ==
    LET s == Base91DecodeLoop(str, 1, Len(str), [v |-> -1, b |-> 0, n |-> 0, out |-> << >>])
    IN  IF s.v + 1 # 0 THEN Append(s.out, (s.b + s.v * (2 ^ s.n)) % 256) ELSE s.out

-----------------------------------------------------------------------------
(* src/sep39.py: encode.                                                   *)

\* __version__ = "1"
version == <<49>>

\* the payload limit of encode and the metadata-length limit of decode
MaxPayload == 126000
\* a row's key and value hold at most this many units
SlotWidth == 64
\* header characters per key (after the 2-character index)
KeyHeader == 62
\* the largest index encode_index accepts
MaxIndex == 1295

\* header characters per row: 62 + 64
RowHeader == KeyHeader + SlotWidth

\* string.digits + string.ascii_lowercase
ALPHABET == [k \in 1..36 |-> IF k <= 10 THEN 47 + k ELSE 86 + k]

\* the assertion of _encode_index
IndexInRange(i) == i >= 0 /\ i <= MaxIndex

\* _encode_index(i), for an i that passes its assertion
encode_index(i) == <<ALPHABET[(i \div 36) + 1], ALPHABET[(i % 36) + 1]>>

RECURSIVE NearestLoop(_, _, _)
\* the for loop of _encode_nearest: i counts down to 1; (encoded, data[i:], i) for
\* the first i whose encoding fits in n, ("", data, 0) when none does
NearestLoop(bytes, n, i) ==
    IF i <= 0 THEN [encoded |-> << >>, data |-> bytes, i |-> 0]
    ELSE LET encoded == Base91Encode(Take(bytes, i))
         IN  IF Len(encoded) <= n
             THEN [encoded |-> encoded, data |-> From(bytes, i), i |-> i]
             ELSE NearestLoop(bytes, n, i - 1)

\* _encode_nearest(data, n); math.ceil(n / 1.10) is (10 n + 10) \div 11 for 0 <= n <= 64
encode_nearest(bytes, n) == NearestLoop(bytes, n, (10 * n + 10) \div 11)

\* render_media_type(media_type, **params)
render_media_type(mt) ==
    mt.type \o (IF Len(mt.params) > 0 THEN <<59>> ELSE << >>)
        \o Join([k \in 1..Len(mt.params) |-> mt.params[k][1] \o <<61>> \o mt.params[k][2]],
                <<59>>)

\* the key of the params dict is present
HasParam(params, name) == \E k \in 1..Len(params) : params[k][1] = name
\* params[name], for a key that is present
Param(params, name) == params[CHOOSE k \in 1..Len(params) : params[k][1] = name][2]

\* 's' in params for all of media_types[:-1]
SizesGiven(mts) == \A k \in 1..(Len(mts) - 1) : HasParam(mts[k].params, <<115>>)

\* metadata = ','.join(map(render_media_type, media_types))
Metadata(mts) == Join([k \in 1..Len(mts) |-> render_media_type(mts[k])], <<44>>)

\* header = f"{__version__}{str(len(metadata))}{metadata}"
Header(metadata) == version \o Str(Len(metadata)) \o metadata

\* the values i of range(0, len(header), 62+64)
HeaderOffsets(header) == [j \in 1..((Len(header) + RowHeader - 1) \div RowHeader) |->
                              RowHeader * (j - 1)]

\* "First, insert the header as-is": one row per offset i, its index made from i
HeaderRows(header) ==
    [j \in 1..Len(HeaderOffsets(header)) |->
        LET i == HeaderOffsets(header)[j]
        IN  [key   |-> encode_index(i) \o Slice(header, i, i + KeyHeader),
             value |-> Slice(header, i + KeyHeader, i + KeyHeader + SlotWidth)]]

\* "top off the last-used row, first": [rows, data] after lines 61-65
TopOff(hrows, bytes) ==
    LET last   == hrows[Len(hrows)]
        near   == encode_nearest(bytes, SlotWidth - Len(last.key))
        room   == SlotWidth - Len(last.value)
        value  == last.value \o Take(near.data, room)
    IN  [rows |-> [hrows EXCEPT ![Len(hrows)] = [key |-> last.key \o near.encoded,
                                                 value |-> value]],
         data |-> From(near.data, room)]

\* FillRow with the whole key width given to the text, the index forgotten:
\* _encode_nearest(data, 64)
FillRowWholeKey(bytes, i) ==
    LET index == encode_index(i)
        near  == encode_nearest(bytes, SlotWidth)
    IN  [row  |-> [key |-> index \o near.encoded, value |-> Take(near.data, SlotWidth)],
         data |-> From(near.data, SlotWidth)]

\* one pass of "then fill in the rest of the rows": the row made for index i and the
\* data left after it
FillRow(bytes, i) ==
    LET index == encode_index(i)
        near  == encode_nearest(bytes, SlotWidth - Len(index))
    IN  [row  |-> [key |-> index \o near.encoded, value |-> Take(near.data, SlotWidth)],
         data |-> From(near.data, SlotWidth)]

RECURSIVE FillRows(_, _, _)
\* the while loop of encode: [err, rows]
FillRows(rs, bytes, i) ==
    IF bytes = << >> THEN [err |-> "ok", rows |-> rs]
    ELSE IF ~IndexInRange(i) THEN [err |-> "IndexOutOfRange", rows |-> << >>]
    ELSE LET f == FillRow(bytes, i)
         IN  FillRows(Append(rs, f.row), f.data, i + 1)

\* the limit taken as inclusive: len(data) > 126000
TooLargeOffByOne(len) == len > MaxPayload

\* line 41: len(data) >= 126000
TooLarge(len) == len >= MaxPayload

\* lines 39-65 of encode, up to the topped-off last header row: [err, rows, data].
\* len is len(data); bytes is the data these lines read: all of it, or a prefix that
\* holds the bytes the top-off can take.
EncodeHead(len, bytes, mts) ==
    IF TooLarge(len) THEN [err |-> "PayloadTooLarge", rows |-> << >>, data |-> << >>]
    ELSE IF ~SizesGiven(mts)
         THEN [err |-> "MissingSizeParameter", rows |-> << >>, data |-> << >>]
    ELSE LET header == Header(Metadata(mts))
         IN  IF \E j \in 1..Len(HeaderOffsets(header)) :
                    ~IndexInRange(HeaderOffsets(header)[j])
             THEN [err |-> "IndexOutOfRange", rows |-> << >>, data |-> << >>]
             ELSE LET top == TopOff(HeaderRows(header), bytes)
                  IN  [err |-> "ok", rows |-> top.rows, data |-> top.data]

\* encode(data, *media_types): [err, rows].  err is "ok", or the exception raised:
\* "PayloadTooLarge" (line 42), "MissingSizeParameter" (line 46), "IndexOutOfRange"
\* (the assertion of _encode_index); nothing is returned with an exception.
encode(bytes, mts) ==
    LET head == EncodeHead(Len(bytes), bytes, mts)
    IN  IF head.err # "ok" THEN [err |-> head.err, rows |-> << >>]
        ELSE FillRows(head.rows, head.data, Len(head.rows))

-----------------------------------------------------------------------------
(* zlib.crc32 (import zlib): the CRC-32 of zlib, bit by bit.  A CRC is the   *)
(* sequence of its 32 bits, least significant first.                       *)

\* bit k (1 = least significant) of x >= 0
Bit(x, k) == (x \div (2 ^ (k - 1))) % 2

\* a ^ b of two CRCs (SubSeq makes the sequence of the bits, once)
Xor32(a, b) == SubSeq([k \in 1..32 |-> (a[k] + b[k]) % 2], 1, 32)

\* the reflected polynomial 0xEDB88320
CrcPoly == SubSeq([k \in 1..32 |-> IF k <= 16 THEN Bit(33568, k) ELSE Bit(60856, k - 16)], 1, 32)

\* crc = (crc >> 1) ^ (0xEDB88320 if crc & 1 else 0)
CrcShift(crc) ==
    IF crc[1] = 1 THEN Xor32(Append(Tail(crc), 0), CrcPoly) ELSE Append(Tail(crc), 0)

\* one byte: crc ^= byte, then eight shifts
CrcByte(crc, byte) ==
    CrcShift(CrcShift(CrcShift(CrcShift(CrcShift(CrcShift(CrcShift(CrcShift(
        Xor32(crc, [k \in 1..32 |-> IF k <= 8 THEN Bit(byte, k) ELSE 0])))))))))

RECURSIVE CrcLoop(_, _, _, _)
\* the bytes bs[lo..hi] in order (halved as Base91EncodeLoop is)
CrcLoop(bs, lo, hi, crc) ==
    IF Len(crc) # 32 \/ lo > hi THEN crc
    ELSE IF lo = hi THEN CrcByte(crc, bs[lo])
    ELSE CrcLoop(bs, ((lo + hi) \div 2) + 1, hi, CrcLoop(bs, lo, (lo + hi) \div 2, crc))

\* zlib.crc32(bs): starts from all ones, and is complemented at the end
crc32(bs) ==
    Xor32(CrcLoop(bs, 1, Len(bs), [k \in 1..32 |-> 1]), [k \in 1..32 |-> 1])

RECURSIVE BitsValue(_, _, _)
\* the number whose bits are c[lo..hi]
BitsValue(c, lo, hi) == IF lo > hi THEN 0 ELSE c[lo] + 2 * BitsValue(c, lo + 1, hi)

RECURSIVE StrOfWide(_, _)
\* the decimal digits of hi * 65536 + lo > 0, by long division by ten
StrOfWide(hi, lo) ==
    IF hi = 0 /\ lo = 0 THEN << >>
    ELSE LET t == (hi % 10) * 65536 + lo
         IN  Append(StrOfWide(hi \div 10, t \div 10), 48 + (t % 10))

\* str(crc) of a CRC as Python holds it, an int of up to 32 bits
StrOfCrc(c) ==
    LET hi == BitsValue(c, 17, 32)
        lo == BitsValue(c, 1, 16)
    IN  IF hi = 0 /\ lo = 0 THEN <<48>> ELSE StrOfWide(hi, lo)

-----------------------------------------------------------------------------
(* src/sep39.py: decode.                                                   *)

\* a Python object with its type, for a comparison across types
PyStr(s) == [type |-> "str", val |-> s]
PyIntObj(v) == [type |-> "int", val |-> v]
\* a != b: objects of different types are never equal
PyNe(a, b) == a.type # b.type \/ a.val # b.val

RECURSIVE LengthLoopNoZeroStop(_, _, _)
\* the loop of lines 89-95 without the break of line 94 on a leading zero
LengthLoopNoZeroStop(key1, j, digits) ==
    IF j >= Len(key1) THEN [err |-> "IndexError", digits |-> digits, j |-> j]
    ELSE IF ~IsDigit(key1[j + 1]) THEN [err |-> "ok", digits |-> digits, j |-> j]
    ELSE IF j = 9 THEN [err |-> "ok", digits |-> Append(digits, key1[j + 1]), j |-> j]
    ELSE LengthLoopNoZeroStop(key1, j + 1, Append(digits, key1[j + 1]))

RECURSIVE LengthLoop(_, _, _)
\* lines 89-95, the loop over j in range(3, 3+7): [err, digits, j].  key1[j] past
\* the end of the key raises IndexError; j stays where the loop stopped.
LengthLoop(key1, j, digits) ==
    IF j >= Len(key1) THEN [err |-> "IndexError", digits |-> digits, j |-> j]
    ELSE IF ~IsDigit(key1[j + 1]) THEN [err |-> "ok", digits |-> digits, j |-> j]
    ELSE IF j = 3 /\ key1[j + 1] = 48
         THEN [err |-> "ok", digits |-> Append(digits, key1[j + 1]), j |-> j]
    ELSE IF j = 9 THEN [err |-> "ok", digits |-> Append(digits, key1[j + 1]), j |-> j]
    ELSE LengthLoop(key1, j + 1, Append(digits, key1[j + 1]))

\* key + value.decode("ascii") of the rows rs, concatenated in order
RowsText(rs) ==
    IF Len(rs) = 0 THEN << >>
    ELSE Join([k \in 1..Len(rs) |-> rs[k].key \o rs[k].value], << >>)

\* lines 104-125: [err, metadata] from the rows, the parsed length and the place j
\* where the length field stopped
ReadMetadata(rs, metadata_len, j) ==
    LET key1   == rs[1].key
        value1 == rs[1].value
        m1     == Take(From(key1, j), metadata_len)
        v1     == Take(value1, metadata_len - Len(m1))
        m2     == m1 \o v1
        rem    == metadata_len - Len(m2)
        r      == rem \div RowHeader
        c      == rem % RowHeader
        full   == Slice(rs, 1, 1 + r)
        last   == rs[1 + r + 1]
        lastv  == Take(last.value, Max(0, c - 64))
    IN  IF ~IsAscii(v1) THEN [err |-> "UnicodeDecodeError", metadata |-> << >>]
        ELSE IF rem <= 0 THEN [err |-> "ok", metadata |-> m2]
        ELSE IF \E k \in 1..Len(full) : ~IsAscii(full[k].value)
             THEN [err |-> "UnicodeDecodeError", metadata |-> << >>]
        ELSE IF 1 + r >= Len(rs) THEN [err |-> "IndexError", metadata |-> << >>]
        ELSE IF ~IsAscii(lastv) THEN [err |-> "UnicodeDecodeError", metadata |-> << >>]
        ELSE [err |-> "ok", metadata |-> m2 \o RowsText(full) \o Take(last.key, c) \o lastv]

\* lines 129-133: the bytes from the start of the binary on, for r, c as line 129
\* computes them and r < len(rows)
ReadBinary(rs, r, c) ==
    LET first == Base91Decode(From(rs[r + 1].key, 2 + c)) \o From(rs[r + 1].value, Max(0, c - 62))
        rest  == From(rs, r + 1)
    IN  IF Len(rest) = 0 THEN first
        ELSE first \o Join([k \in 1..Len(rest) |->
                               Base91Decode(From(rest[k].key, 2)) \o rest[k].value], << >>)

\* dict(param.split('=') for param in media[1:]) can be built: every piece has two parts
ParamsOk(pieces) == \A k \in 2..Len(pieces) : Len(Split(pieces[k], 61)) = 2

RECURSIVE DictOf(_, _)
\* dict(pairs): a later pair with a key already present replaces its value
DictOf(pairs, d) ==
    IF Len(pairs) = 0 THEN d
    ELSE LET kv == pairs[1]
         IN  IF HasParam(d, kv[1])
             THEN DictOf(Tail(pairs),
                         [k \in 1..Len(d) |-> IF d[k][1] = kv[1] THEN <<kv[1], kv[2]>> ELSE d[k]])
             ELSE DictOf(Tail(pairs), Append(d, <<kv[1], kv[2]>>))

\* lines 137-140: one (type, params) per comma-separated piece of the metadata
ParseMedia(media) ==
    LET pieces == Split(media, 59)
    IN  [type   |-> pieces[1],
         params |-> DictOf([k \in 1..(Len(pieces) - 1) |-> Split(pieces[k + 1], 61)], << >>)]

ParseMetadata(metadata) ==
    LET medias == Split(metadata, 44)
    IN  IF \E k \in 1..Len(medias) : ~ParamsOk(Split(medias[k], 59))
        THEN [err |-> "MalformedMetadata", media_types |-> << >>]
        ELSE [err |-> "ok", media_types |-> [k \in 1..Len(medias) |-> ParseMedia(medias[k])]]

\* line 153: chk is not None and chk != actual, with chk the str read from the
\* metadata and actual the int zlib.crc32 returned
ChecksumFails(params, attachment) ==
    /\ HasParam(params, <<99>>)
    /\ PyNe(PyStr(Param(params, <<99>>)), PyIntObj(crc32(attachment)))

RECURSIVE SplitBinary(_, _, _, _)
\* lines 145-154, from media type k on: [err, binaries]
SplitBinary(mts, k, binary, binaries) ==
    IF k > Len(mts) THEN [err |-> "ok", binaries |-> binaries]
    ELSE LET params == mts[k].params
             given  == HasParam(params, <<115>>)
             s      == IF given THEN PyInt(Param(params, <<115>>)) ELSE Len(binary)
         IN  IF given /\ ~IsDecimal(Param(params, <<115>>))
             THEN [err |-> "ValueError", binaries |-> << >>]
             ELSE IF ChecksumFails(params, Take(binary, s))
             THEN [err |-> "ChecksumMismatch", binaries |-> << >>]
             ELSE SplitBinary(mts, k + 1, From(binary, s), Append(binaries, Take(binary, s)))

NoResult(err) ==
    [err |-> err, metadata |-> << >>, binary |-> << >>, media_types |-> << >>,
     binaries |-> << >>]

\* decode(rows): [err, metadata, binary, media_types, binaries].  err is "ok", and
\* media_types and binaries are what decode returns, or err is the exception raised and
\* nothing is returned.  metadata and binary are decode's locals of these names
\* (binary as line 133 leaves it), kept for the exceptions raised after them.
decode(rs) ==
    IF Len(rs) = 0 THEN NoResult("IndexError")
    ELSE IF Take(rs[1].key, 3) # <<48, 48>> \o version THEN NoResult("InvalidFrame")
    ELSE LET len == LengthLoop(rs[1].key, 3, << >>)
         IN
         IF len.err # "ok" THEN NoResult(len.err)
         ELSE IF ~IsDecimal(len.digits) \/ PyInt(len.digits) >= MaxPayload
              THEN NoResult("InvalidLength")
         ELSE LET metadata_len == PyInt(len.digits)
                  meta == ReadMetadata(rs, metadata_len, len.j)
                  h    == Len(version) + Len(Str(metadata_len)) + metadata_len
                  r    == h \div RowHeader
                  c    == h % RowHeader
              IN
              IF meta.err # "ok" THEN NoResult(meta.err)
              ELSE IF Len(meta.metadata) # metadata_len
                   THEN [NoResult("ParsingMetadataFailed") EXCEPT !.metadata = meta.metadata]
              ELSE IF r >= Len(rs)
                   THEN [NoResult("IndexError") EXCEPT !.metadata = meta.metadata]
              ELSE LET binary == ReadBinary(rs, r, c)
                       parsed == ParseMetadata(meta.metadata)
                       split  == SplitBinary(parsed.media_types, 1, binary, << >>)
                       seen   == [NoResult("ok") EXCEPT !.metadata = meta.metadata,
                                                        !.binary = binary]
                   IN
                   IF parsed.err # "ok" THEN [seen EXCEPT !.err = parsed.err]
                   ELSE IF split.err # "ok" THEN [seen EXCEPT !.err = split.err]
                   ELSE [seen EXCEPT !.media_types = parsed.media_types,
                                     !.binaries = split.binaries]

-----------------------------------------------------------------------------
(* The inputs: payloads and media types of the shapes the tests use.       *)

\* payload patterns 0..MaxPattern
MaxPattern == 2
\* the longest payload
MaxDataLen == 128
\* the longest name parameter
MaxNameLen == 243

\* byte p (from 1) of pattern pat: all zero bits (base91 packs 14 bits a pair), all
\* one bits (13 bits a pair), or bytes that run through all values, the first two
\* making base91 text that starts with a digit
PatByte(pat, p) ==
    CASE pat = 0 -> 0
      [] pat = 1 -> 255
      [] OTHER   -> (143 + (pat - 2) + 145 * (p - 1)) % 256

Payload(pat, len) == [p \in 1..len |-> PatByte(pat, p)]

\* payload lengths: empty, one byte, around a full value, and more than one row
DataLens == {0, 1} \cup (63..65) \cup (126..MaxDataLen)

\* lengths of the name parameter: they put the end of the frame header at the end of
\* the first key (52..54), of the first row (115..117) and of the second row (241..)
NameLens == {0} \cup (52..54) \cup (115..117) \cup (241..MaxNameLen)

TypeA == <<97, 47, 98>>        \* "a/b"
TypeB == <<99, 47, 100>>       \* "c/d"
ParamN(k) == << <<110>>, [i \in 1..k |-> 120] >>     \* n = "x" * k
ParamS(v) == << <<115>>, Str(v) >>                   \* s = str(v)
ParamC(str) == << <<99>>, str >>                     \* c = str
Desc(type, params) == [type |-> type, params |-> params]

\* where a payload of this length is cut in two attachments
Cuts(len) == {0, 1, 120, len} \cap (0..len)

MediaLists(bytes) ==
    LET len == Len(bytes)
    IN  {<< >>, <<Desc(TypeA, << >>)>>}
        \cup {<<Desc(TypeA, <<ParamN(k)>>)>> : k \in NameLens}
        \cup {<<Desc(TypeA, <<ParamC(StrOfCrc(crc32(bytes)))>>)>>,
              <<Desc(TypeA, <<ParamC(<<49, 50, 51, 52, 53>>)>>)>>}
        \cup {<<Desc(TypeA, <<ParamS(v)>>)>> : v \in {len, len + 1} \cup ({len - 1} \cap Nat)}
        \cup {<<Desc(TypeA, <<ParamN(0)>>), Desc(TypeB, << >>)>>}
        \cup {<<Desc(TypeA, <<ParamN(k), ParamS(cut)>>), Desc(TypeB, << >>)>> :
                  k \in {0, 117}, cut \in Cuts(len)}

-----------------------------------------------------------------------------
(* The caller: encode, then decode of the rows, which the transport may    *)
(* have changed in between.                                                *)

NoBig == [pc |-> "off"]

Init ==
    /\ \E pat \in 0..MaxPattern, len \in DataLens : data = Payload(pat, len)
    /\ media_types \in MediaLists(data)
    /\ rows = << >>
    /\ enc = [err |-> "none"]
    /\ dec = NoResult("none")
    /\ pc = "start"
    /\ tampered = FALSE
    /\ big = NoBig

\* rows = sep39.encode(data, *media_types)
Encode ==
    /\ pc = "start"
    /\ LET e == encode(data, media_types)
       IN  /\ enc' = [err |-> e.err]
           /\ rows' = e.rows
           /\ pc' = IF e.err = "ok" THEN "encoded" ELSE "rejected"
    /\ UNCHANGED <<data, media_types, dec, tampered, big>>

\* some media type declares a checksum
DeclaresChecksum == \E k \in 1..Len(media_types) : HasParam(media_types[k].params, <<99>>)

\* the transport changes the last byte of one row's value (the scenario of a declared
\* checksum: "corrupting one byte of the resulting slot value before decode")
Tamper ==
    /\ pc = "encoded"
    /\ ~tampered
    /\ DeclaresChecksum
    /\ \E r \in 1..Len(rows) :
          /\ Len(rows[r].value) > 0
          /\ LET v == rows[r].value
                 n == Len(v)
             IN  rows' = [rows EXCEPT ![r].value = [v EXCEPT ![n] = (v[n] + 1) % 256]]
    /\ tampered' = TRUE
    /\ UNCHANGED <<data, media_types, enc, dec, pc, big>>

\* medias, binaries = sep39.decode(rows)
Decode ==
    /\ pc = "encoded"
    /\ dec' = decode(rows)
    /\ pc' = "decoded"
    /\ UNCHANGED <<data, media_types, rows, enc, tampered, big>>

Next == Encode \/ Tamper \/ Decode

Spec == Init /\ [][Next]_vars

-----------------------------------------------------------------------------
(* encode on a payload at the size limit, one row of the while loop at a    *)
(* time.  The payload is Payload(big.pat, big.len); it is too long to be   *)
(* held as a sequence, and so are the rows: the run reads the payload      *)
(* through Window and keeps the count of rows and the last row.            *)
(*   big.pos  the bytes of the payload consumed so far                     *)
(*   big.i    the local i of encode, the index of the next row             *)

\* no row takes more bytes than this: the start of _encode_nearest's loop for a
\* whole key, and a whole value
WindowLen == ((10 * KeyHeader + 10) \div 11) + SlotWidth

\* data as the run has it at position pos, cut to the bytes a row can take
Window(pat, len, pos) == [p \in 1..Min(WindowLen, len - pos) |-> PatByte(pat, pos + p)]

\* the payload lengths of the run: the limit, one less and one more
BigLens == {MaxPayload - 1, MaxPayload, MaxPayload + 1}

BigInit ==
    /\ data = << >>
    /\ media_types \in {<< >>, <<Desc(TypeA, <<ParamN(0)>>)>>}
    /\ rows = << >>
    /\ enc = [err |-> "none"]
    /\ dec = NoResult("none")
    /\ pc = "off"
    /\ tampered = FALSE
    /\ \E pat \in 0..MaxPattern, len \in BigLens :
          big = [pc |-> "start", pat |-> pat, len |-> len, pos |-> 0, i |-> 0,
                 nrows |-> 0, last |-> [key |-> << >>, value |-> << >>], err |-> "none"]

\* lines 39-68: the checks, the header rows and the top-off
BigStart ==
    /\ big.pc = "start"
    /\ LET w    == Window(big.pat, big.len, 0)
           head == EncodeHead(big.len, w, media_types)
       IN  big' = IF head.err # "ok"
                  THEN [big EXCEPT !.pc = "raised", !.err = head.err]
                  ELSE [big EXCEPT !.pc = "fill", !.err = "ok",
                                   !.pos = Len(w) - Len(head.data),
                                   !.i = Len(head.rows), !.nrows = Len(head.rows),
                                   !.last = head.rows[Len(head.rows)]]
    /\ UNCHANGED <<data, media_types, rows, enc, dec, pc, tampered>>

\* lines 69-74: one pass of the while loop
BigRow ==
    /\ big.pc = "fill"
    /\ big.pos < big.len
    /\ LET w == Window(big.pat, big.len, big.pos)
           f == FillRow(w, big.i)
       IN  big' = IF ~IndexInRange(big.i)
                  THEN [big EXCEPT !.pc = "raised", !.err = "IndexOutOfRange"]
                  ELSE [big EXCEPT !.pos = big.pos + (Len(w) - Len(f.data)),
                                   !.i = big.i + 1, !.nrows = big.nrows + 1,
                                   !.last = f.row]
    /\ UNCHANGED <<data, media_types, rows, enc, dec, pc, tampered>>

\* line 76: return rows, once no data is left
BigReturn ==
    /\ big.pc = "fill"
    /\ big.pos = big.len
    /\ big' = [big EXCEPT !.pc = "returned"]
    /\ UNCHANGED <<data, media_types, rows, enc, dec, pc, tampered>>

BigNext == BigStart \/ BigRow \/ BigReturn

BigSpec == BigInit /\ [][BigNext]_vars

-----------------------------------------------------------------------------
(* The properties.                                                         *)

\* the frame header encode lays out for the media types given
GivenMetadata == Metadata(media_types)
GivenHeader == Header(GivenMetadata)

\* decode ran on the rows as encode returned them
DecodedIntact == pc = "decoded" /\ ~tampered

\* exactly one media type, declaring neither s nor c
PlainSingle ==
    /\ Len(media_types) = 1
    /\ ~HasParam(media_types[1].params, <<115>>)
    /\ ~HasParam(media_types[1].params, <<99>>)

\* C1 - Round-trip: for a single media type that declares neither s nor c and any
\* payload, decode of the encoded rows returns exactly that media type and exactly one
\* binary equal to the payload.
C1_RoundTrip ==
    (DecodedIntact /\ PlainSingle) =>
        /\ dec.err = "ok"
        /\ dec.media_types = media_types
        /\ dec.binaries = <<data>>

\* C2 - Slot width: every row encode returns has a key of at most 64 characters and a
\* value of at most 64 bytes, header rows, the topped-off row and binary rows alike.
C2_SlotWidth ==
    (pc \in {"encoded", "decoded"}) =>
        \A r \in 1..Len(rows) :
            Len(rows[r].key) <= SlotWidth /\ Len(rows[r].value) <= SlotWidth

\* encode returned a header of more than one row, topped off, and binary rows after
\* it, one of them full in key and value
C2_Witness ==
    /\ pc = "encoded"
    /\ Len(GivenHeader) > RowHeader
    /\ Len(rows) > Len(HeaderOffsets(GivenHeader))
    /\ \E r \in 1..Len(rows) :
          Len(rows[r].key) = SlotWidth /\ Len(rows[r].value) = SlotWidth

\* C3 - Multi-attachment: encode of two media types fails when the first has no s;
\* when the first declares s = len(first), decode of the encoded rows returns the two
\* media types in order and the two slices of the payload, in order.
C3_MultiAttachment ==
    /\ (pc # "start" /\ Len(media_types) = 2
            /\ ~HasParam(media_types[1].params, <<115>>)) =>
           (pc = "rejected" /\ enc.err = "MissingSizeParameter" /\ rows = << >>)
    /\ (DecodedIntact /\ Len(media_types) = 2
            /\ HasParam(media_types[1].params, <<115>>)) =>
           LET s == PyInt(Param(media_types[1].params, <<115>>))
           IN  /\ dec.err = "ok"
               /\ dec.media_types = media_types
               /\ dec.binaries = <<Take(data, s), From(data, s)>>

\* C4 - Checksum: with a single media type that declares c, decode raises the checksum
\* error if and only if the declared c differs from the CRC32, in decimal, of the bytes
\* it sliced; otherwise it returns those bytes.
C4_Checksum ==
    (pc = "decoded" /\ Len(media_types) = 1 /\ HasParam(media_types[1].params, <<99>>)) =>
        LET declared == Param(media_types[1].params, <<99>>)
            differs  == declared # StrOfCrc(crc32(dec.binary))
        IN  /\ (dec.err = "ChecksumMismatch") <=> differs
            /\ ~differs => (dec.err = "ok" /\ dec.binaries = <<dec.binary>>)

\* the first key starts with 00, the version and the single digit 0, and the length
\* loop of decode reads that digit alone
ZeroLengthField ==
    /\ Len(rows) > 0
    /\ Take(rows[1].key, 4) = <<48, 48>> \o version \o <<48>>
    /\ LengthLoop(rows[1].key, 3, << >>) = [err |-> "ok", digits |-> <<48>>, j |-> 3]

\* C5 as stated - Empty metadata: encode with no media types writes the length field 0,
\* and decode returns an empty list of media types with the whole payload.
C5_EmptyMetadata ==
    (Len(media_types) = 0 /\ pc \in {"encoded", "decoded"}) =>
        /\ ZeroLengthField
        /\ pc = "decoded" =>
              (dec.err = "ok" /\ dec.media_types = << >> /\ dec.binaries = <<data>>)

\* C5 amended - Empty metadata: encode with no media types writes the length field 0,
\* and decode reads the length 0 and returns one media type, with the empty string as
\* its type and no parameters, and one binary, the whole payload.
C5_EmptyMetadataAmended ==
    (Len(media_types) = 0 /\ pc \in {"encoded", "decoded"}) =>
        /\ ZeroLengthField
        /\ pc = "decoded" =>
              /\ dec.err = "ok"
              /\ dec.metadata = << >>
              /\ dec.media_types = <<Desc(<< >>, << >>)>>
              /\ dec.binaries = <<data>>

\* decode ran on rows made of no media types and a payload whose text starts with a
\* digit, right after the length field
C5_Witness ==
    /\ pc = "decoded"
    /\ Len(media_types) = 0
    /\ Len(data) > 1
    /\ Len(rows[1].key) > 4
    /\ IsDigit(rows[1].key[5])

\* C6 - Oversize: encode of a payload of 126000 bytes or more raises PayloadTooLarge
\* and makes no row; encode of 125999 bytes raises nothing, every index it asks of
\* _encode_index being within 0..1295.
C6_Oversize ==
    /\ (big.pc \notin {"off", "start"} /\ big.len >= MaxPayload) =>
           (big.pc = "raised" /\ big.err = "PayloadTooLarge" /\ big.nrows = 0)
    /\ (big.pc \notin {"off", "start"} /\ big.len = MaxPayload - 1) =>
           /\ big.pc \in {"fill", "returned"}
           /\ big.err = "ok"
           /\ big.nrows = big.i
           /\ big.i <= MaxIndex + 1
           /\ (big.pc = "fill" /\ big.pos < big.len) => IndexInRange(big.i)

\* encode returned for 125999 bytes of the densest text, 13 bits a pair of characters
C6_Witness ==
    /\ big.pc = "returned"
    /\ big.len = MaxPayload - 1
    /\ big.pos = big.len
    /\ big.nrows > 1100

\* C7 - Index is position: the key of the row at position n (from 0) starts with the
\* 2-character base-36 rendering of n, in header rows and binary rows alike.
C7_IndexIsPosition ==
    (pc = "encoded" /\ ~tampered) =>
        \A r \in 1..Len(rows) : Take(rows[r].key, 2) = encode_index(r - 1)

\* C8 - Attachment size: decode raises AttachmentCountMismatch when a media type
\* declares an s larger than the bytes left, and never returns an attachment shorter
\* than its declared s.
C8_SizeEnforced ==
    /\ (DecodedIntact /\ Len(media_types) = 1 /\ ~DeclaresChecksum
            /\ HasParam(media_types[1].params, <<115>>)
            /\ PyInt(Param(media_types[1].params, <<115>>)) > Len(data)) =>
           dec.err = "AttachmentCountMismatch"
    /\ (pc = "decoded" /\ dec.err = "ok") =>
           \A k \in 1..Len(dec.media_types) :
               HasParam(dec.media_types[k].params, <<115>>) =>
                   Len(dec.binaries[k]) >= PyInt(Param(dec.media_types[k].params, <<115>>))

\* C9 - Metadata reassembly: decode of the rows encode made rebuilds the metadata
\* string character for character, also from a header of several rows, and does not
\* fail.  Stated for media types without a checksum and a payload that is not empty.
C9_MetadataReassembled ==
    (DecodedIntact /\ ~DeclaresChecksum /\ Len(data) > 0) =>
        /\ dec.err = "ok"
        /\ dec.metadata = GivenMetadata

\* the header length as decode has it at line 129, from the length field of the first key
DecodedHeaderLen ==
    LET metadata_len == PyInt(LengthLoop(rows[1].key, 3, << >>).digits)
    IN  Len(version) + Len(Str(metadata_len)) + metadata_len

\* C10 - Binary start: the row r and the offset c of divmod(h, 126) name a row encode
\* made, and the bytes decode accumulates from there are the payload, also for h a
\* multiple of 126 and for the empty payload.
C10_BinaryStart ==
    (pc = "encoded" /\ ~tampered) =>
        LET h == DecodedHeaderLen
            r == h \div RowHeader
            c == h % RowHeader
        IN  /\ h = Len(GivenHeader)
            /\ r < Len(rows)
            /\ ReadBinary(rows, r, c) = data

=============================================================================
